---- MODULE Spec2Model ----
(***************************************************************************)
(* A model of src/my_agent.py: the regex field extractor                   *)
(* (extract_structured_data_from_text), the retrieval adapter              *)
(* (enhanced_knowledge_base_query), the answer composer                    *)
(* (generate_enhanced_response) and the request handler (invoke).          *)
(*                                                                         *)
(* A text is a sequence of characters.  An ASCII character is the          *)
(* one-character string holding it; a non-ASCII character is named by its  *)
(* code point, "u3067" being U+3067 (hiragana DE).  A Python value that    *)
(* may be None is a sequence of at most one element: None is << >>, the    *)
(* value v is << v >>.  A Python float read from decimal digits is the     *)
(* normalised pair [m, e] standing for m / 10^e.                           *)
(***************************************************************************)
EXTENDS Integers, Sequences, FiniteSets, TLC

None == << >>
Some(v) == << v >>

\* The element of a set of one element
TheOne(S) == CHOOSE x \in S : TRUE

\* A set of at most one element as an optional value
OptOf(S) == IF S = {} THEN None ELSE Some(TheOne(S))

(***************************************************************************)
(* Characters and the character classes of Python's re and str.            *)
(***************************************************************************)
DigitChars == <<"0", "1", "2", "3", "4", "5", "6", "7", "8", "9">>

\* The classes the patterns use: \d and [^,] (line 75), [:\s] and [^\n\r,]
\* (lines 63-66); "space" is also what str.strip() removes.
InClass(c, cls) ==
    CASE cls = "digit" -> \E i \in 1..10 : DigitChars[i] = c
      [] cls = "space" -> c \in {" ", "\t", "\n", "\r"}
      [] cls = "notcomma" -> c # ","
      [] cls = "labelsep" -> c \in {":", " ", "\t", "\n", "\r"}
      [] cls = "value" -> c \notin {"\n", "\r", ","}

DigitVal(c) == (CHOOSE i \in 1..10 : DigitChars[i] = c) - 1

\* re.IGNORECASE on the ASCII letters of "title"  (line 89)
Lower(c) ==
    CASE c = "T" -> "t"
      [] c = "I" -> "i"
      [] c = "L" -> "l"
      [] c = "E" -> "e"
      [] OTHER -> c

\* What a greedy cls* consumes from p: the end (exclusive) of the longest
\* run of characters of the class that starts at p.
RECURSIVE RunEnd(_, _, _)
RunEnd(t, p, cls) ==
    IF p > Len(t) THEN p
    ELSE IF ~InClass(t[p], cls) THEN p
    ELSE RunEnd(t, p + 1, cls)

\* Whether pat occurs in t at position p, letters compared without case.
OccursAt(t, p, pat) ==
    /\ p >= 1
    /\ p + Len(pat) - 1 <= Len(t)
    /\ \A i \in 1..Len(pat) : Lower(t[p + i - 1]) = Lower(pat[i])

\* The last position at or before i that holds no space, 0 when none does.
RECURSIVE LastNonSpace(_, _)
LastNonSpace(s, i) ==
    IF i = 0 THEN 0
    ELSE IF ~InClass(s[i], "space") THEN i
    ELSE LastNonSpace(s, i - 1)

\* str.strip()
Strip(s) == SubSeq(s, RunEnd(s, 1, "space"), LastNonSpace(s, Len(s)))

\* The position after the last line feed at or before i, 1 when there is none.
RECURSIVE LastLineStart(_, _)
LastLineStart(s, i) ==
    IF i = 0 THEN 1
    ELSE IF s[i] = "\n" THEN i + 1
    ELSE LastLineStart(s, i - 1)

\* str.split('\n')[-1]: what follows the last line feed
LastLine(s) == SubSeq(s, LastLineStart(s, Len(s)), Len(s))

(***************************************************************************)
(* Python floats read from decimal text.                                   *)
(***************************************************************************)
RECURSIVE DigitsVal(_, _)
DigitsVal(ds, n) ==
    IF n = 0 THEN 0 ELSE 10 * DigitsVal(ds, n - 1) + DigitVal(ds[n])

RECURSIVE Normalise(_, _)
Normalise(m, e) ==
    IF m = 0 THEN [m |-> 0, e |-> 0]
    ELSE IF e > 0 /\ m % 10 = 0 THEN Normalise(m \div 10, e - 1)
    ELSE [m |-> m, e |-> e]

\* The readings of tok as an optional sign, digits, an optional point and
\* digits, with a digit on one side of the point: none, or one.
FloatReadings(tok) ==
    UNION { UNION { UNION {
        { [neg |-> (b = 2 /\ tok[1] = "-"),
           digits |-> SubSeq(tok, b, i - 1) \o SubSeq(tok, f, Len(tok)),
           e |-> Len(tok) + 1 - f] }
        : f \in {g \in {IF i <= Len(tok) /\ tok[i] = "." THEN i + 1 ELSE i} :
                    /\ RunEnd(tok, g, "digit") = Len(tok) + 1
                    /\ (i - b) + (Len(tok) + 1 - g) >= 1} }
        : i \in {RunEnd(tok, b, "digit")} }
        : b \in {IF Len(tok) >= 1 /\ tok[1] \in {"-", "+"} THEN 2 ELSE 1} }

\* float(tok): the value, or None where Python raises ValueError.
Float(tok) ==
    OptOf({ Normalise((IF r.neg THEN -1 ELSE 1) * DigitsVal(r.digits, Len(r.digits)), r.e)
            : r \in FloatReadings(tok) })

\* Python truth of an optional float: None and 0.0 (and -0.0) are false.
FloatTruthy(f) == f # None /\ f[1].m # 0

\* Python truth of an optional text: None and '' are false.
TextTruthy(s) == s # None /\ Len(s[1]) > 0

(***************************************************************************)
(* Line 75: the coordinate pattern, searched in the whole text.            *)
(***************************************************************************)
\* re.search(r'[^,]+,[^,]+,[^,]+,([-]?\d+\.?\d*),([-]?\d+\.?\d*)', text_content)
\* A matcher gives the set of positions at which its match may end; each of
\* the matchers below has at most one.

\* A variant of the number pattern that does not demand a digit.
NumEndsNoDigitNeeded(t, p) ==
    UNION { { RunEnd(t, IF q1 <= Len(t) /\ t[q1] = "." THEN q1 + 1 ELSE q1, "digit") }
            : q1 \in {RunEnd(t, IF p <= Len(t) /\ t[p] = "-" THEN p + 1 ELSE p, "digit")} }

\* [-]?\d+\.?\d* at p: the end (exclusive) of the greedy match.  Every
\* shorter match ends before a digit or a point, so backtracking into the
\* number never helps what follows it.
NumEnds(t, p) ==
    UNION { UNION { { RunEnd(t, IF q1 <= Len(t) /\ t[q1] = "." THEN q1 + 1 ELSE q1, "digit") }
            : q1 \in {RunEnd(t, q0, "digit")} \ {q0} }
            : q0 \in {IF p <= Len(t) /\ t[p] = "-" THEN p + 1 ELSE p} }

\* [^,]+, at p: the position after the comma.  The greedy run ends at the
\* next comma, and no shorter run is followed by one.
FieldEnds(t, p) ==
    { q + 1 : q \in {RunEnd(t, p, "notcomma")} \cap ((p + 1)..Len(t)) }

\* The whole pattern tried at start position s: its pairs of groups
LatLonMatchesAt(t, s) ==
    UNION { UNION { UNION { UNION {
        { [g1 |-> SubSeq(t, a3, n1 - 1), g2 |-> SubSeq(t, n1 + 1, n2 - 1)]
          : n2 \in NumEnds(t, n1 + 1) }
        : n1 \in {n \in NumEnds(t, a3) : n <= Len(t) /\ t[n] = ","} }
        : a3 \in FieldEnds(t, a2) }
        : a2 \in FieldEnds(t, a1) }
        : a1 \in FieldEnds(t, s) }

\* re.search: the match at the leftmost start position, from s on, that has
\* one; None when no position has.
RECURSIVE LatLonSearch(_, _)
LatLonSearch(t, s) ==
    IF s > Len(t) THEN None
    ELSE IF LatLonMatchesAt(t, s) # {} THEN OptOf(LatLonMatchesAt(t, s))
    ELSE LatLonSearch(t, s + 1)

(***************************************************************************)
(* Lines 61-70: the ordered title patterns, each searched in the last      *)
(* line with re.IGNORECASE.                                                *)
(***************************************************************************)
\* The labels of the first four patterns: title, and the katakana and kanji
\* labels TAITORU, KENMEI, JIKOMEI.
TitleLabels ==
    << <<"t", "i", "t", "l", "e">>,
       <<"u30BF", "u30A4", "u30C8", "u30EB">>,
       <<"u4EF6", "u540D">>,
       <<"u4E8B", "u6545", "u540D">> >>

\* DE NO, the particle the suffix pattern looks for
DeNo == <<"u3067", "u306E">>

\* The incident categories of the suffix pattern, in its order of
\* alternatives: KOUTSUU JIKO, KOUTSUU SHOUGAI JIKO, YAKAN JIKO.
IncidentCategories ==
    << <<"u4EA4", "u901A", "u4E8B", "u6545">>,
       <<"u4EA4", "u901A", "u969C", "u5BB3", "u4E8B", "u6545">>,
       <<"u591C", "u9593", "u4E8B", "u6545">> >>

NumTitlePatterns == Len(TitleLabels) + 2

\* $ without re.MULTILINE: the end of the text, or just before a final
\* line feed.
AtEnd(line, e) ==
    e = Len(line) + 1 \/ (e = Len(line) /\ line[e] = "\n")

\* The greedy [:\s]+ ended at k after starting at p: it gives characters
\* back, one at a time, until a value character follows it.  The start of
\* group 1, 0 when there is none.
RECURSIVE ValueStart(_, _, _)
ValueStart(line, p, k) ==
    IF k <= p THEN 0
    ELSE IF k <= Len(line) /\ InClass(line[k], "value") THEN k
    ELSE ValueStart(line, p, k - 1)

\* r'<label>[:\s]+([^\n\r,]+)' tried at start position s: its group 1
LabelledMatchesAt(line, s, label) ==
    IF ~OccursAt(line, s, label) THEN {}
    ELSE { SubSeq(line, g, RunEnd(line, g, "value") - 1)
           : g \in {ValueStart(line, s + Len(label),
                               RunEnd(line, s + Len(label), "labelsep"))} \ {0} }

RECURSIVE LabelledSearch(_, _, _)
LabelledSearch(line, s, label) ==
    IF s > Len(line) THEN None
    ELSE IF LabelledMatchesAt(line, s, label) # {}
    THEN OptOf(LabelledMatchesAt(line, s, label))
    ELSE LabelledSearch(line, s + 1, label)

\* The suffix DE NO <category> $ at position e
SuffixAt(line, e) ==
    \E i \in 1..Len(IncidentCategories) :
        /\ OccursAt(line, e, DeNo \o IncidentCategories[i])
        /\ AtEnd(line, e + Len(DeNo \o IncidentCategories[i]))

\* The lazy (.+?) started at s and has reached e: it ends where the suffix
\* follows, and grows by one character that is no line feed otherwise.  The
\* end (exclusive) of group 1, 0 when there is none.
RECURSIVE SuffixGroupEnd(_, _)
SuffixGroupEnd(line, e) ==
    IF e > Len(line) THEN 0
    ELSE IF SuffixAt(line, e) THEN e
    ELSE IF line[e] = "\n" THEN 0
    ELSE SuffixGroupEnd(line, e + 1)

\* r'(.+?)DENO(cat1|cat2|cat3)$' tried at start position s: its group 1
SuffixMatchesAt(line, s) ==
    IF line[s] = "\n" THEN {}
    ELSE { SubSeq(line, s, e - 1) : e \in {SuffixGroupEnd(line, s + 1)} \ {0} }

RECURSIVE SuffixSearch(_, _)
SuffixSearch(line, s) ==
    IF s > Len(line) THEN None
    ELSE IF SuffixMatchesAt(line, s) # {} THEN OptOf(SuffixMatchesAt(line, s))
    ELSE SuffixSearch(line, s + 1)

\* The lazy (.+?) of r'^(.+?)$' has reached e
RECURSIVE CatchAllGroupEnd(_, _)
CatchAllGroupEnd(line, e) ==
    IF AtEnd(line, e) THEN e
    ELSE IF e > Len(line) THEN 0
    ELSE IF line[e] = "\n" THEN 0
    ELSE CatchAllGroupEnd(line, e + 1)

\* r'^(.+?)$': ^ holds at the start of the line only
CatchAllSearch(line) ==
    IF Len(line) = 0 THEN None
    ELSE IF line[1] = "\n" THEN None
    ELSE OptOf({ SubSeq(line, 1, e - 1) : e \in {CatchAllGroupEnd(line, 2)} \ {0} })

\* match.group(1) of title_patterns[i] searched in the line, or None
TitlePatternGroup(i, line) ==
    IF i <= Len(TitleLabels) THEN LabelledSearch(line, 1, TitleLabels[i])
    ELSE IF i = Len(TitleLabels) + 1 THEN SuffixSearch(line, 1)
    ELSE CatchAllSearch(line)

\* Lines 88-92: the loop over title_patterns from pattern i on, to its
\* first match: the pattern's index and its group 1, stripped
RECURSIVE FirstTitleMatch(_, _)
FirstTitleMatch(line, i) ==
    IF i > NumTitlePatterns THEN None
    ELSE IF TitlePatternGroup(i, line) # None
    THEN Some([pattern |-> i, extracted_title |-> Strip(TitlePatternGroup(i, line)[1])])
    ELSE FirstTitleMatch(line, i + 1)

(***************************************************************************)
(* Lines 49-105: extract_structured_data_from_text.                        *)
(***************************************************************************)
\* Lines 76-81: latitude is stored as soon as float(group 1) succeeds and
\* longitude after float(group 2); a ValueError leaves what was stored.
ParseLatLon(m) ==
    IF m = None THEN [latitude |-> None, longitude |-> None]
    ELSE TheOne({ [latitude |-> f1, longitude |-> IF f1 = None THEN None ELSE f2]
                  : f1 \in {Float(m[1].g1)}, f2 \in {Float(m[1].g2)} })

\* Line 94: if structured_data["latitude"] and structured_data["longitude"]
HasLatLon(ll) == FloatTruthy(ll.latitude) /\ FloatTruthy(ll.longitude)

\* Lines 93-100: the title is stored when both coordinates are true values,
\* and goes into the note of other_fields otherwise
StructuredData(ll, tm) ==
    [title     |-> IF tm # None /\ HasLatLon(ll) THEN Some(tm[1].extracted_title) ELSE None,
     longitude |-> ll.longitude,
     latitude  |-> ll.latitude,
     note      |-> IF tm # None /\ ~HasLatLon(ll) THEN Some(tm[1].extracted_title) ELSE None]

extract_structured_data_from_text(text_content) ==
    TheOne(UNION { { StructuredData(ll, tm)
                     : ll \in {ParseLatLon(m)},
                       tm \in {FirstTitleMatch(last_line, 1)} }
                   : m \in {LatLonSearch(text_content, 1)},
                     last_line \in {LastLine(Strip(text_content))} })

(***************************************************************************)
(* The passages the retrieval backend may return.                          *)
(***************************************************************************)
\* a record with coordinates that ends NISHI DE NO KOUTSUU JIKO
GeoText ==
    <<"a", ",", "b", ",", "c", ",", "3", "5", ".", "7", ",", "1", "3",
    "9", ".", "5", ",", "u897F", "u3067", "u306E", "u4EA4", "u901A",
    "u4E8B", "u6545">>

\* a record on the equator: latitude 0
ZeroLatText ==
    <<"a", ",", "b", ",", "c", ",", "0", ",", "1", "3", "9", ".", "5",
    ",", "x">>

\* a text with no coordinate record
PlainText ==
    <<"n", "o">>

\* a record with coordinates whose title label has a blank value
EmptyTitleText ==
    <<"a", ",", "b", ",", "c", ",", "1", ",", "2", ",", "t", "i", "t",
    "l", "e", ":", " ", ",", "x">>

\* A retrieval result is a dict: "text" is content.text, "uri" is
\* location.s3Location.uri, and "score" is in thousandths.  Any of the keys
\* may be missing.
Passages ==
    { [text |-> GeoText, score |-> 875, uri |-> "s3://kb/1"],
      [text |-> ZeroLatText, score |-> 421],
      [text |-> PlainText, uri |-> "s3://kb/3"],
      [text |-> EmptyTitleText, score |-> 1000, uri |-> "s3://kb/4"],
      [score |-> 500] }

\* The most results a retrieval returns in the model
MaxResults == 4

(***************************************************************************)
(* Configuration and Python dict access.                                   *)
(***************************************************************************)
\* Line 12: the default of STRANDS_KNOWLEDGE_BASE_ID
KNOWLEDGE_BASE_ID == "O8YQYDMUQB"

\* Line 120: numberOfResults
NumberOfResults == 20

\* Line 158: the preview length of a raw result
PreviewLength == 500

\* Line 268: the structured entries the fallback text shows
FallbackEntries == 3

\* dict.get(k, default)
DictGet(d, k, default) == IF k \in DOMAIN d THEN d[k] ELSE default

\* Python truth of dict.get(k) for a dict of texts: a missing key gives
\* None, and None and '' are false.
GetTruthy(d, k) == k \in DOMAIN d /\ d[k] # ""

(***************************************************************************)
(* Lines 106-196: enhanced_knowledge_base_query.                           *)
(***************************************************************************)
\* Line 113: the query sent, the user's text and the fixed keywords
\* (TOKYO-TO, JIKO, ICHI JOUHOU)
EnhancedQuery(query_text) ==
    query_text \o <<" ", "u6771", "u4EAC", "u90FD", " ", "u4E8B", "u6545", " ",
                    "u4F4D", "u7F6E", "u60C5", "u5831">>

\* Lines 115-124: the request handed to bedrock_agent.retrieve
RetrieveRequest(kb_id, query_text) ==
    [knowledgeBaseId |-> kb_id,
     text |-> EnhancedQuery(query_text),
     numberOfResults |-> NumberOfResults,
     overrideSearchType |-> "HYBRID"]

\* Line 158: content[:500] + "..." if len(content) > 500 else content
Preview(content) ==
    IF Len(content) > PreviewLength
    THEN SubSeq(content, 1, PreviewLength) \o <<".", ".", ".">>
    ELSE content

\* Line 147 for each passage, evaluated once: the extractor is a function of
\* the content alone
ExtractedFields ==
    [p \in Passages |->
        extract_structured_data_from_text(DictGet(p, "text", << >>))]

\* Lines 141-150: one result's structured entry
StructuredResult(result, i) ==
    LET sd == ExtractedFields[result]
    IN  [title |-> sd.title,
         longitude |-> sd.longitude,
         latitude |-> sd.latitude,
         note |-> sd.note,
         score |-> DictGet(result, "score", 0),
         source |-> DictGet(result, "uri", "Unknown"),
         result_index |-> i]

\* Lines 155-160: one result's raw entry
RawResult(result, i) ==
    [index |-> i,
     score |-> DictGet(result, "score", 0),
     content |-> Preview(DictGet(result, "text", << >>)),
     source |-> DictGet(result, "uri", "Unknown")]

\* Lines 176-183: the message of a ClientError
ErrorMessage(error_code, error_message) ==
    CASE error_code = "ValidationException" -> [kind |-> "kb_configuration_problem"]
      [] error_code = "ResourceNotFoundException" -> [kind |-> "kb_not_found"]
      [] error_code = "AccessDeniedException" -> [kind |-> "kb_access_denied"]
      [] OTHER -> [kind |-> "kb_query_error", text |-> error_message]

\* What the retrieve call did: it returned results, raised a ClientError
\* (whose response may carry no Error.Code), or raised something else.
\* The envelope returned in each case.
enhanced_knowledge_base_query(outcome) ==
    CASE outcome.kind = "ok" ->
            IF Len(outcome.results) = 0
            THEN [message |-> [kind |-> "no_results"],
                  structured_data |-> << >>,
                  raw_results |-> << >>]
            ELSE [message |-> [kind |-> "found", n |-> Len(outcome.results)],
                  structured_data |->
                      [i \in 1..Len(outcome.results) |->
                          StructuredResult(outcome.results[i], i)],
                  raw_results |->
                      [i \in 1..Len(outcome.results) |->
                          RawResult(outcome.results[i], i)]]
      [] outcome.kind = "client_error" ->
            LET error_code == DictGet(outcome, "code", "UnknownError")
            IN  [message |-> ErrorMessage(error_code, outcome.message),
                 structured_data |-> << >>,
                 raw_results |-> << >>,
                 error |-> error_code]
      [] OTHER ->
            [message |-> [kind |-> "system_error", text |-> outcome.message],
             structured_data |-> << >>,
             raw_results |-> << >>,
             error |-> "SystemError"]

(***************************************************************************)
(* Lines 198-275: generate_enhanced_response.                              *)
(***************************************************************************)
\* The placeholder FUMEI ("unknown") of line 212
UnknownTitle == <<"u4E0D", "u660E">>

\* Lines 202-205
HasStructuredData(sds) ==
    \E i \in 1..Len(sds) :
        \/ TextTruthy(sds[i].title)
        \/ FloatTruthy(sds[i].longitude)
        \/ FloatTruthy(sds[i].latitude)

\* Line 210: if result.get("longitude") and result.get("latitude")
HasLocation(r) == FloatTruthy(r.longitude) /\ FloatTruthy(r.latitude)

\* Lines 211-216: the "title" key is always there, so its value is taken
\* even when it is None
LocationEntry(r) ==
    [title |-> DictGet(r, "title", Some(UnknownTitle)),
     longitude |-> r.longitude,
     latitude |-> r.latitude,
     score |-> DictGet(r, "score", 0)]

\* Lines 208-216
RECURSIVE LocationData(_)
LocationData(sds) ==
    IF Len(sds) = 0 THEN << >>
    ELSE (IF HasLocation(Head(sds)) THEN << LocationEntry(Head(sds)) >> ELSE << >>)
         \o LocationData(Tail(sds))

\* Lines 219-246: the parts of the prompt
BuildPrompt(user_query, qr) ==
    [user_query |-> user_query,
     message |-> qr.message,
     raw_results |-> qr.raw_results,
     structured_info |->
        IF HasStructuredData(qr.structured_data)
        THEN Some(qr.structured_data) ELSE None,
     location_info |->
        IF LocationData(qr.structured_data) # << >>
        THEN Some(LocationData(qr.structured_data)) ELSE None]

\* f"{score:.2f}" of a score in thousandths: hundredths, a half rounding to
\* the even neighbour
Format2(score) ==
    LET q == score \div 10
        r == score % 10
    IN  IF r > 5 \/ (r = 5 /\ q % 2 = 1) THEN q + 1 ELSE q

\* Lines 269-273: the lines of one structured entry
FallbackEntry(data, i) ==
    (IF TextTruthy(data.title)
     THEN << [kind |-> "title", index |-> i, title |-> data.title[1]] >>
     ELSE << >>)
    \o (IF FloatTruthy(data.longitude) /\ FloatTruthy(data.latitude)
        THEN << [kind |-> "position", index |-> i,
                 longitude |-> data.longitude[1], latitude |-> data.latitude[1]] >>
        ELSE << >>)
    \o << [kind |-> "relevance", index |-> i,
           score |-> Format2(DictGet(data, "score", 0))] >>

\* A variant with no limit on the entries shown.
FallbackShownAll(sds) == sds

\* Line 268: query_results['structured_data'][:3]
FallbackShown(sds) ==
    SubSeq(sds, 1, IF Len(sds) < FallbackEntries THEN Len(sds) ELSE FallbackEntries)

RECURSIVE FallbackEntryLines(_, _)
FallbackEntryLines(sds, i) ==
    IF i > Len(sds) THEN << >>
    ELSE FallbackEntry(sds[i], i) \o FallbackEntryLines(sds, i + 1)

\* Lines 263-275: the templated text, line by line
FallbackResponse(qr) ==
    << [kind |-> "message", message |-> qr.message] >>
    \o (IF Len(qr.structured_data) > 0
        THEN << [kind |-> "header"] >>
             \o FallbackEntryLines(FallbackShown(qr.structured_data), 1)
        ELSE << >>)

\* What invoke_model did: it returned a body with content[0].text, returned
\* a body without it, or raised.  Lines 257-258 and 260-275: anything but
\* the first ends in the fallback text.
generate_enhanced_response(gen, qr) ==
    IF gen = "ok"
    THEN [kind |-> "generated"]
    ELSE [kind |-> "fallback", lines |-> FallbackResponse(qr)]

(***************************************************************************)
(* The state: one request through invoke (lines 277-349), and one text     *)
(* through extract_structured_data_from_text.                              *)
(***************************************************************************)
VARIABLES
    pc,                 \* where invoke is: Received, CreatingClients,
                        \* Retrieving, Composing, Responded (it returned),
                        \* Raised (an exception left it)
    payload,            \* the dict handed to invoke
    user_message,       \* line 281
    return_format,      \* line 282
    query_results,      \* line 297
    response,           \* the dict invoke returned
    clients_created,    \* how often create_bedrock_clients built its clients
    retrieve_calls,     \* the requests bedrock_agent.retrieve received
    invoke_model_calls, \* the prompts bedrock_runtime.invoke_model received
    retrieve_outcome,   \* what the retrieve call did
    generate_outcome,   \* what the invoke_model call did
    location_data,      \* line 208, as generate_enhanced_response built it
    x_pc,               \* the extractor: Input, Done
    x_text,             \* its text_content
    x_result            \* the structured_data it returned

hvars == <<pc, payload, user_message, return_format, query_results, response,
           clients_created, retrieve_calls, invoke_model_calls,
           retrieve_outcome, generate_outcome, location_data>>
xvars == <<x_pc, x_text, x_result>>
vars == <<hvars, xvars>>

NoOutcome == [kind |-> "none"]
NoResponse == [status |-> "none"]
NoEnvelope == [message |-> [kind |-> "none"], structured_data |-> << >>,
               raw_results |-> << >>]
NoStructuredData == [title |-> None, longitude |-> None, latitude |-> None,
                     note |-> None]

(***************************************************************************)
(* The inputs of invoke.                                                   *)
(***************************************************************************)
\* The values of payload["prompt"]: texts, and a value that is no text
PromptValues ==
    { [str |-> << >>], [str |-> <<" ">>], [str |-> <<" ", "\n", "\t">>],
      [str |-> <<"q">>], [str |-> <<" ", "q", "?", " ">>], [nonstr |-> TRUE] }

FormatValues == {"simple", "enhanced", "detailed"}

\* The payloads: dicts with or without each key, and a value that is no dict
Payloads ==
    [prompt : PromptValues, format : FormatValues]
    \cup [prompt : PromptValues]
    \cup [format : FormatValues]
    \cup { << >>, [nondict |-> TRUE] }

\* The Error.Code a ClientError may carry
ErrorCodes ==
    {"ValidationException", "ResourceNotFoundException", "AccessDeniedException",
     "ThrottlingException", ""}

\* The results a retrieval returns: up to MaxResults passages, and no more
\* than it was asked for
ResultLists ==
    UNION {[1..n -> Passages] :
             n \in 0..(IF MaxResults < NumberOfResults THEN MaxResults
                       ELSE NumberOfResults)}

RetrieveOutcomes ==
    {[kind |-> "ok", results |-> rs] : rs \in ResultLists}
    \cup {[kind |-> "client_error", code |-> c, message |-> "denied"] : c \in ErrorCodes}
    \cup {[kind |-> "client_error", message |-> "An error occurred"],
          [kind |-> "exception", message |-> "EndpointConnectionError"]}

GenerateOutcomes == {"ok", "malformed_body", "raises"}

(***************************************************************************)
(* Lines 277-349: invoke.                                                  *)
(***************************************************************************)
Return(r) ==
    /\ response' = r
    /\ pc' = "Responded"

\* A variant in which the exception leaves invoke.
Propagate(e) ==
    /\ response' = response
    /\ pc' = "Raised"

\* Lines 341-349: the outermost handler
Except(e) ==
    Return([result |-> [kind |-> "system_failure"],
            error |-> [kind |-> "application_error", text |-> e],
            status |-> "system_error"])

\* A variant that does not strip the prompt.
UserMessageUnstripped(p) == DictGet(p, "prompt", [str |-> << >>]).str

\* Line 281: payload.get("prompt", "").strip()
UserMessage(p) == Strip(DictGet(p, "prompt", [str |-> << >>]).str)

\* Line 281 raises AttributeError when the payload has no get, or the
\* prompt no strip
PayloadRaises(p) ==
    \/ "nondict" \in DOMAIN p
    \/ ("prompt" \in DOMAIN p /\ "str" \notin DOMAIN p.prompt)

\* A variant that takes no format for the simple one.
IsSimpleNever(f) == FALSE

\* Line 313: return_format == "simple"
IsSimple(f) == f = "simple"

\* Lines 281-292
Validate ==
    /\ pc = "Received"
    /\ IF PayloadRaises(payload)
       THEN /\ Except("AttributeError")
            /\ UNCHANGED <<user_message, return_format>>
       ELSE /\ user_message' = UserMessage(payload)
            /\ return_format' = DictGet(payload, "format", "enhanced")
            /\ IF Len(UserMessage(payload)) = 0
               THEN Return([result |-> [kind |-> "enter_a_question"],
                            status |-> "error"])
               ELSE /\ pc' = "CreatingClients"
                    /\ UNCHANGED response
    /\ UNCHANGED <<payload, query_results, clients_created, retrieve_calls,
                   invoke_model_calls, retrieve_outcome, generate_outcome,
                   location_data, xvars>>

\* Line 294, with lines 18-47: the clients are built, or boto3 raises and
\* create_bedrock_clients raises again
CreateClients ==
    /\ pc = "CreatingClients"
    /\ \E built \in BOOLEAN :
        IF built
        THEN /\ clients_created' = clients_created + 1
             /\ pc' = "Retrieving"
             /\ UNCHANGED response
        ELSE /\ Except("NoRegionError")
             /\ UNCHANGED clients_created
    /\ UNCHANGED <<payload, user_message, return_format, query_results,
                   retrieve_calls, invoke_model_calls, retrieve_outcome,
                   generate_outcome, location_data, xvars>>

\* Lines 297-321 and 339
Retrieve ==
    /\ pc = "Retrieving"
    /\ \E outcome \in RetrieveOutcomes :
        \E qr \in {enhanced_knowledge_base_query(outcome)} :
            /\ retrieve_outcome' = outcome
            /\ retrieve_calls' =
                 Append(retrieve_calls, RetrieveRequest(KNOWLEDGE_BASE_ID, user_message))
            /\ query_results' = qr
            /\ IF GetTruthy(qr, "error")
               THEN Return([result |-> qr.message,
                            knowledge_base_id |-> KNOWLEDGE_BASE_ID,
                            status |-> "error",
                            error |-> qr.error])
               ELSE IF IsSimple(return_format)
               THEN Return([result |-> qr.message,
                            structured_data |-> qr.structured_data,
                            count |-> Len(qr.structured_data),
                            knowledge_base_id |-> KNOWLEDGE_BASE_ID,
                            status |-> "success"])
               ELSE /\ pc' = "Composing"
                    /\ UNCHANGED response
    /\ UNCHANGED <<payload, user_message, return_format, clients_created,
                   invoke_model_calls, generate_outcome, location_data, xvars>>

\* Lines 324-339
Compose ==
    /\ pc = "Composing"
    /\ \E gen \in GenerateOutcomes :
        /\ generate_outcome' = gen
        /\ location_data' = LocationData(query_results.structured_data)
        /\ invoke_model_calls' =
             Append(invoke_model_calls, BuildPrompt(user_message, query_results))
        /\ Return([result |-> generate_enhanced_response(gen, query_results),
                   structured_data |-> query_results.structured_data,
                   raw_results |-> query_results.raw_results,
                   count |-> Len(query_results.structured_data),
                   knowledge_base_id |-> KNOWLEDGE_BASE_ID,
                   status |-> "success"])
    /\ UNCHANGED <<payload, user_message, return_format, query_results,
                   clients_created, retrieve_calls, retrieve_outcome, xvars>>

(***************************************************************************)
(* The inputs of extract_structured_data_from_text.                        *)
(***************************************************************************)
\* The most leading fields of a generated record
MaxHeadFields == 3

\* k leading fields, each followed by its comma
RECURSIVE HeadOf(_)
HeadOf(k) == IF k = 0 THEN << >> ELSE <<"a", "b", ",">> \o HeadOf(k - 1)

\* The leading fields of a record: none to MaxHeadFields of them, or three
\* with the second one empty
Heads == {HeadOf(k) : k \in 0..MaxHeadFields} \cup {<<"a", ",", ",", "c", ",">>}

\* What stands where the latitude is expected
LatTokens ==
    { <<"0">>,
      <<"3", "5", ".", "7">>,
      <<"-", "1", ".">>,
      <<"x", "1">>,
      << >> }

\* What stands where the longitude is expected
LonTokens ==
    { <<"1", "3", "9", ".", "5">>,
      <<"0", ".", "0">>,
      <<"2", "x">>,
      <<"y">>,
      <<"-">> }

\* What follows: nothing, a field ending NISHI DE NO KOUTSUU JIKO, labelled
\* titles, blanks, a second line labelled KENMEI
Tails ==
    { << >>,
      <<",", "u897F", "u3067", "u306E", "u4EA4", "u901A", "u4E8B", "u6545">>,
      <<",", "t", "i", "t", "l", "e", ":", " ", "f", "o", "o", ",", "z">>,
      <<"\n", "T", "i", "t", "l", "e", ":", ",", "q">>,
      <<",", " ", "x", " ", "\n">>,
      <<"\n", "u4EF6", "u540D", " ", "k">> }

\* The record of the comment at line 73, ending NISHI-TOKYO-SHI DE NO KOUTSUU
\* JIKO
ScenarioText ==
    <<"2", "0", "2", "2", "/", "1", "2", "/", "2", " ", "4", ":", "0",
    "0", ",", "u6674", "u308C", ",", "u897F", "u6771", "u4EAC", "u5E02",
    "u67F3", "u6CA2", "1", "-", "1", "0", ",", "3", "5", ".", "7", "2",
    "6", ",", "1", "3", "9", ".", "5", "5", "3", "9", "1", ",", "u897F",
    "u6771", "u4EAC", "u5E02", "u3067", "u306E", "u4EA4", "u901A",
    "u4E8B", "u6545">>

ExtractInputs ==
    { h \o la \o <<",">> \o lo \o tl
      : h \in Heads, la \in LatTokens, lo \in LonTokens, tl \in Tails }
    \cup { ScenarioText, << >>, <<" ", "\n">> }

XIdle == x_pc = "Idle" /\ x_text = << >> /\ x_result = NoStructuredData

Init ==
    /\ pc = "Received"
    /\ payload \in Payloads
    /\ user_message = << >>
    /\ return_format = "enhanced"
    /\ query_results = NoEnvelope
    /\ response = NoResponse
    /\ clients_created = 0
    /\ retrieve_calls = << >>
    /\ invoke_model_calls = << >>
    /\ retrieve_outcome = NoOutcome
    /\ generate_outcome = "none"
    /\ location_data = << >>
    /\ XIdle

Next == Validate \/ CreateClients \/ Retrieve \/ Compose

Spec == Init /\ [][Next]_vars

(***************************************************************************)
(* The extractor on its own: a text is drawn, and the function applied.    *)
(***************************************************************************)
HIdle ==
    /\ pc = "Idle"
    /\ payload = << >>
    /\ user_message = << >>
    /\ return_format = "enhanced"
    /\ query_results = NoEnvelope
    /\ response = NoResponse
    /\ clients_created = 0
    /\ retrieve_calls = << >>
    /\ invoke_model_calls = << >>
    /\ retrieve_outcome = NoOutcome
    /\ generate_outcome = "none"
    /\ location_data = << >>

ExtractInit ==
    /\ x_pc = "Input"
    /\ x_text \in ExtractInputs
    /\ x_result = NoStructuredData
    /\ HIdle

\* Lines 49-105
Extract ==
    /\ x_pc = "Input"
    /\ x_result' = extract_structured_data_from_text(x_text)
    /\ x_pc' = "Done"
    /\ UNCHANGED <<x_text, hvars>>

ExtractNext == Extract

ExtractSpec == ExtractInit /\ [][ExtractNext]_vars


(***************************************************************************)
(* The claims.                                                             *)
(***************************************************************************)
WhiteSpace == {" ", "\t", "\n", "\r"}

\* The payload is a dict whose prompt is missing, empty or all white space.
BlankPrompt(p) ==
    /\ "nondict" \notin DOMAIN p
    /\ \/ "prompt" \notin DOMAIN p
       \/ /\ "str" \in DOMAIN p.prompt
          /\ \A i \in 1..Len(p.prompt.str) : p.prompt.str[i] \in WhiteSpace

\* The retrieve call was made and failed.
RetrievalFailed == retrieve_outcome.kind \in {"client_error", "exception"}

\* C1: when the retrieve call fails with a ClientError that carries an error
\* code, or with another exception, invoke returns status "error", its
\* error field is that code ("SystemError" for another exception), and
\* invoke_model was not called.
C1_RetrievalFailureShortCircuits ==
    (/\ pc = "Responded"
     /\ RetrievalFailed
     /\ (retrieve_outcome.kind = "client_error" => "code" \in DOMAIN retrieve_outcome))
    => /\ response.status = "error"
       /\ "error" \in DOMAIN response
       /\ response.error = (IF retrieve_outcome.kind = "client_error"
                            THEN retrieve_outcome.code ELSE "SystemError")
       /\ invoke_model_calls = << >>

\* C1, for the error codes that are not the empty text: the same statement,
\* which the code satisfies.
C1_NonEmptyCodeShortCircuits ==
    (/\ pc = "Responded"
     /\ RetrievalFailed
     /\ (retrieve_outcome.kind = "client_error" =>
            "code" \in DOMAIN retrieve_outcome /\ retrieve_outcome.code # ""))
    => /\ response.status = "error"
       /\ "error" \in DOMAIN response
       /\ response.error = (IF retrieve_outcome.kind = "client_error"
                            THEN retrieve_outcome.code ELSE "SystemError")
       /\ invoke_model_calls = << >>

\* C2: a payload whose prompt is missing, empty or all white space is
\* answered in one step with the fixed prompt-for-input response, status
\* "error", whatever its format; no client is built and neither backend is
\* called.
C2_BlankPromptRejected ==
    (BlankPrompt(payload) /\ pc # "Received")
    => /\ pc = "Responded"
       /\ response = [result |-> [kind |-> "enter_a_question"], status |-> "error"]
       /\ clients_created = 0
       /\ retrieve_calls = << >>
       /\ invoke_model_calls = << >>

C2_Witness ==
    /\ pc = "Responded"
    /\ "prompt" \in DOMAIN payload
    /\ payload.prompt = [str |-> <<" ", "\n", "\t">>]
    /\ "format" \in DOMAIN payload
    /\ payload.format = "simple"
    /\ response.status = "error"

\* The structured entries the fallback text may show: the first three.
ShownEntries == 1..(IF Len(query_results.structured_data) < 3
                    THEN Len(query_results.structured_data) ELSE 3)

\* The lines of the fallback text that are of the kind and for the entry
FallbackLines(kind, i) ==
    {k \in 1..Len(response.result.lines) :
        /\ response.result.lines[k].kind = kind
        /\ response.result.lines[k].index = i}

\* C3: when invoke_model raises (or returns a body that cannot be read),
\* generate_enhanced_response raises nothing and returns the fallback text:
\* the envelope's message, then for each of at most the first three
\* structured entries a title line only if it has a title, a position line
\* only if it has both coordinates, and one relevance line; invoke returns
\* status "success" with that text as result.
C3_FallbackOnGenerationFailure ==
    (pc \in {"Responded", "Raised"} /\ generate_outcome \in {"raises", "malformed_body"})
    => /\ pc = "Responded"
       /\ response.status = "success"
       /\ response.result.kind = "fallback"
       /\ response.result.lines[1] = [kind |-> "message", message |-> query_results.message]
       /\ \A k \in 2..Len(response.result.lines) :
            \/ response.result.lines[k].kind = "header"
            \/ response.result.lines[k].index \in ShownEntries
       /\ \A i \in ShownEntries :
            /\ Cardinality(FallbackLines("relevance", i)) = 1
            /\ \A k \in FallbackLines("title", i) :
                 /\ query_results.structured_data[i].title # None
                 /\ response.result.lines[k].title = query_results.structured_data[i].title[1]
            /\ \A k \in FallbackLines("position", i) :
                 /\ query_results.structured_data[i].longitude # None
                 /\ query_results.structured_data[i].latitude # None

C3_Witness ==
    /\ pc = "Responded"
    /\ generate_outcome = "raises"
    /\ Len(query_results.structured_data) = 4
    /\ response.result.kind = "fallback"
    /\ FallbackLines("title", 1) # {}
    /\ FallbackLines("position", 1) # {}

\* C4: no exception leaves invoke.  Until it has returned invoke can take a
\* step, and once it has returned it takes none; what it returns has status
\* "success", "error" or "system_error"; and a payload that is no dict or
\* whose prompt is no text, and a failure to build the clients, end in the
\* fixed response of status "system_error".
C4_NeverPropagates ==
    /\ pc # "Raised"
    /\ (pc # "Responded" => ENABLED Next)
    /\ (pc = "Responded" => ~ENABLED Next)
    /\ (pc = "Responded" => response.status \in {"success", "error", "system_error"})
    /\ (pc = "Responded" /\ (PayloadRaises(payload)
                              \/ (~BlankPrompt(payload) /\ clients_created = 0))
        => /\ response.status = "system_error"
           /\ response.result = [kind |-> "system_failure"])

C4_Witness ==
    /\ pc = "Responded"
    /\ ~PayloadRaises(payload)
    /\ ~BlankPrompt(payload)
    /\ clients_created = 0
    /\ response.status = "system_error"

\* C5: every response invoke returns has the keys result, status and
\* knowledge_base_id, the last one holding the configured identifier.
C5_ResponseHasKnowledgeBaseId ==
    pc = "Responded"
    => /\ {"result", "status", "knowledge_base_id"} \subseteq DOMAIN response
       /\ response.knowledge_base_id = KNOWLEDGE_BASE_ID

\* C6: with format "simple", when the retrieval returns N results and no
\* error, invoke returns status "success" with N structured entries and
\* count N, without the key raw_results, and invoke_model is not called.
C6_SimpleMode ==
    (/\ pc \in {"Responded", "Composing", "Raised"}
     /\ "nondict" \notin DOMAIN payload
     /\ "format" \in DOMAIN payload
     /\ payload.format = "simple"
     /\ retrieve_outcome.kind = "ok")
    => /\ pc = "Responded"
       /\ response.status = "success"
       /\ Len(response.structured_data) = Len(retrieve_outcome.results)
       /\ response.count = Len(retrieve_outcome.results)
       /\ "raw_results" \notin DOMAIN response
       /\ invoke_model_calls = << >>

C6_Witness ==
    /\ pc = "Responded"
    /\ return_format = "simple"
    /\ retrieve_outcome.kind = "ok"
    /\ Len(retrieve_outcome.results) = 3
    /\ response.count = 3

\* C7: the structured data of every text has latitude and longitude both
\* set or both absent.
C7_LatLonBothOrNeither ==
    x_pc = "Done" => (x_result.latitude = None <=> x_result.longitude = None)

\* A text whose fourth and fifth fields are numbers was read, and both
\* coordinates are set: -1. is -1.0 and 0.0 is 0.0.
C7_Witness ==
    /\ x_pc = "Done"
    /\ LatLonSearch(x_text, 1) # None
    /\ x_result.latitude = Some([m |-> -1, e |-> 0])
    /\ x_result.longitude = Some([m |-> 0, e |-> 0])

\* C8: when some title pattern matches the last line: if a coordinate pair
\* was found, whatever its values, the title is the stripped group 1 of the
\* first pattern that matches and there is no note; if none was found, the
\* title is absent and there is a note.
C8_TitleFollowsCoordinates ==
    (x_pc = "Done" /\ FirstTitleMatch(LastLine(Strip(x_text)), 1) # None)
    => IF x_result.latitude # None /\ x_result.longitude # None
       THEN /\ x_result.title =
                 Some(FirstTitleMatch(LastLine(Strip(x_text)), 1)[1].extracted_title)
            /\ x_result.note = None
       ELSE /\ x_result.title = None
            /\ x_result.note # None

\* NISHI-TOKYO-SHI DE NO KOUTSUU JIKO, the last field of the scenario
ScenarioTitle ==
    <<"u897F", "u6771", "u4EAC", "u5E02", "u3067", "u306E", "u4EA4", "u901A", "u4E8B", "u6545">>

\* C9: for the record of the scenario the latitude is 35.726, the longitude
\* 139.55391, and the title is its last field, which the suffix pattern
\* (the fifth of the list) gives.
C9_ScenarioTitle ==
    (x_pc = "Done" /\ x_text = ScenarioText)
    => /\ x_result.latitude = Some([m |-> 35726, e |-> 3])
       /\ x_result.longitude = Some([m |-> 13955391, e |-> 5])
       /\ FirstTitleMatch(LastLine(Strip(x_text)), 1)[1].pattern = 5
       /\ x_result.title = Some(ScenarioTitle)

\* C9, as the code has it: the coordinates are those of the claim and the
\* suffix pattern is the one that matches, but its group 1, and so the
\* title, is all that precedes DE NO in the line.
C9_ScenarioAsExtracted ==
    (x_pc = "Done" /\ x_text = ScenarioText)
    => /\ x_result.latitude = Some([m |-> 35726, e |-> 3])
       /\ x_result.longitude = Some([m |-> 13955391, e |-> 5])
       /\ FirstTitleMatch(LastLine(Strip(x_text)), 1)[1].pattern = 5
       /\ x_result.title = Some(SubSeq(ScenarioText, 1, Len(ScenarioText) - 6))

\* The structured results that have both coordinates, in their order
RECURSIVE WithBothCoordinates(_)
WithBothCoordinates(sds) ==
    IF Len(sds) = 0 THEN << >>
    ELSE (IF Head(sds).latitude # None /\ Head(sds).longitude # None
          THEN << Head(sds) >> ELSE << >>)
         \o WithBothCoordinates(Tail(sds))

\* C10: the location subset built for the prompt has one entry for each
\* structured result with both coordinates present and none for the others,
\* in the same order; an entry's title is the result's title, or the
\* "unknown" placeholder when the result has none; and the subset is in the
\* prompt only if it is not empty.
C10_LocationSubset ==
    (pc = "Responded" /\ generate_outcome # "none")
    => /\ Len(location_data) = Len(WithBothCoordinates(query_results.structured_data))
       /\ \A i \in 1..Len(location_data) :
            LET r == WithBothCoordinates(query_results.structured_data)[i]
            IN  /\ location_data[i].latitude = r.latitude
                /\ location_data[i].longitude = r.longitude
                /\ location_data[i].title =
                     (IF r.title # None THEN r.title ELSE Some(UnknownTitle))
       /\ invoke_model_calls[1].location_info =
            (IF location_data # << >> THEN Some(location_data) ELSE None)

====
